---- MODULE Spec2Model ----
(***************************************************************************)
(* A model of thesia's spectrogram engine (src/spec.py, class Spectrogram) *)
(* and of the upload / parameter callback that drives it (src/main.py,     *)
(* parse_contents and update_graphs).                                      *)
(*                                                                         *)
(* Arrays are modelled by what determines them: their shape and the        *)
(* parameters (and, for the mel array, the magnitude array) they were      *)
(* computed from.  Whether a call assigned new arrays to the linear or the *)
(* mel attributes is recorded with the call (call.linear, call.mel): an    *)
(* attribute that was not assigned still holds the same array object.      *)
(* The waveform is modelled by its number of samples.                      *)
(***************************************************************************)
EXTENDS Integers, Sequences, FiniteSets, TLC

(***************************************************************************)
(* Bounds and input domains.                                               *)
(***************************************************************************)
\* Largest exponent tried when computing ceil(log2(.)).
MaxLog == 8

\* Sample rates a decoded file may carry (0 only at construction).
SampleRates == {0, 50, 1000}
\* Waveform lengths, in samples, of decoded files (0: a file with no frames).
WavLens == {0, 7}
\* window_ms arguments (a subset of WINDOW_LENGTHS, src/main.py:29).
WinMsValues == {5, 10, 30, 40}
\* overlap arguments (OVERLAPS, src/main.py:30).
OverlapValues == {2, 4, 8, 16}
\* n_mel arguments (the UI enforces n_mel >= 10, default 128).
NMelValues == {10, 128}

\* Number of CPUs reported by mp.cpu_count().
CpuCount == 4
\* Largest number of files in one upload.
MaxBatch == 3
\* Largest CPU count for which the thread budget is computed.
MaxCpus == 9
\* Number of update_graphs executions the server runs at the same time.
MaxThreads == 2
\* Number of parameter requests one thread serves.
MaxRequests == 2

VARIABLES
    eng,      \* the Spectrogram object under test, or NoEngine
    call,     \* the most recent call on it and how it ended
    given,    \* history: the win_ms and overlap arguments most recently given
    specs,    \* main.py global `specs`: the session's list of engines
    fig,      \* main.py global `fig`: the session's figure
    ui,       \* values of the Dash inputs (upload contents and parameters)
    pool,     \* the jobs of the batch handed to the worker pool
    cb,       \* position of the update_graphs execution in progress
    out,      \* how the most recent update_graphs execution ended
    thr       \* per request thread: position of its update_graphs execution

engVars == <<eng, call, given>>
appVars == <<specs, fig, ui, pool, cb, out>>
vars == <<eng, call, given, specs, fig, ui, pool, cb, out, thr>>

(***************************************************************************)
(* Numeric helpers.                                                        *)
(***************************************************************************)
\* Rounding with ties going up (not what Python does).
RoundHalfUp(n, d) ==
    IF 2 * (n % d) >= d THEN (n \div d) + 1 ELSE n \div d

\* Python's round(n / d) for integers n >= 0, d > 0: ties go to the even
\* neighbour (round half to even).
Round(n, d) ==
    LET q == n \div d
        r == n % d
    IN  IF 2 * r < d THEN q
        ELSE IF 2 * r > d THEN q + 1
        ELSE IF q % 2 = 0 THEN q ELSE q + 1

RECURSIVE Pow2(_)
Pow2(k) == IF k = 0 THEN 1 ELSE 2 * Pow2(k - 1)

\* np.ceil(np.log2(w)) for w >= 1.
CeilLog2(w) ==
    CHOOSE k \in 0..MaxLog : Pow2(k) >= w /\ (k = 0 \/ Pow2(k - 1) < w)

\* Mutant: floor instead of ceil.
NFftFloor(w) ==
    IF w < 1 THEN 0
    ELSE Pow2(CHOOSE k \in 0..MaxLog : Pow2(k) <= w /\ Pow2(k + 1) > w)

\* int(2**np.ceil(np.log2(w))): log2(0) is -inf, 2**-inf is 0.0, int(0.0) is 0.
NFft(w) == IF w < 1 THEN 0 ELSE Pow2(CeilLog2(w))

\* round(sr * win_ms / 1000)
WinLength(sr, win_ms) == Round(sr * win_ms, 1000)

\* Mutant: ties are rounded up.
HopLengthHalfUp(win_length, overlap) == RoundHalfUp(win_length, overlap)

\* round(win_length / overlap)
HopLength(win_length, overlap) == Round(win_length, overlap)

(***************************************************************************)
(* librosa.stft as called by _update_linear (center=True, reflect          *)
(* padding): it raises for an empty signal, for n_fft < 1 and for          *)
(* hop_length < 1; otherwise it yields n_fft/2+1 rows and                  *)
(* 1 + (len + 2*(n_fft/2) - n_fft) / hop_length frames.                    *)
(***************************************************************************)
StftRaises(e) == e.wav = 0 \/ e.n_fft < 1 \/ e.hop_length < 1

Rows(n_fft) == (n_fft \div 2) + 1

Frames(len, n_fft, hop) == 1 + ((len + 2 * (n_fft \div 2) - n_fft) \div hop)

(***************************************************************************)
(* The engine.                                                             *)
(***************************************************************************)
NoEngine == [alive |-> FALSE]

NoArray == [rows |-> 0, frames |-> 0]

\* The mel filterbank has n_fft/2+1 columns; the matrix product with the
\* cached magnitude array raises when the row count of the latter differs.
MelRaises(e) == Rows(e.n_fft) # e.spec.rows

\* Spectrogram._update_mel
update_mel(e) ==
    IF MelRaises(e)
    THEN [eng |-> e, raised |-> TRUE, mel |-> "raised"]
    ELSE [eng |-> [e EXCEPT
                !.mel = [rows |-> e.n_mel,
                         frames |-> e.spec.frames, n_fft |-> e.n_fft,
                         n_mel |-> e.n_mel, src |-> e.spec],
                !.f_mel_axis = [len |-> e.n_mel, fmax |-> e.sr \div 2],
                !.f_mel_axis_str = [rows |-> e.n_mel, cols |-> e.t_axis.len]],
          raised |-> FALSE, mel |-> "done"]

\* Spectrogram._update_linear, lines 77-89: the five linear attributes are
\* assigned from an STFT with fr frames.
LinearAssigned(e, fr) ==
    [e EXCEPT
        !.spec = [rows |-> Rows(e.n_fft), frames |-> fr, n_fft |-> e.n_fft,
                  hop_length |-> e.hop_length, win_length |-> e.win_length],
        !.linear = [rows |-> Rows(e.n_fft), frames |-> fr, n_fft |-> e.n_fft,
                    hop_length |-> e.hop_length, win_length |-> e.win_length],
        !.t_axis = [len |-> fr, hop_length |-> e.hop_length],
        !.f_linear_axis = [len |-> Rows(e.n_fft), fmax |-> e.sr \div 2],
        !.f_linear_axis_str = [rows |-> Rows(e.n_fft), cols |-> fr]]

\* The outcome of a call whose linear stage ran, given the outcome r of the
\* mel stage that followed it.
AfterLinear(r) ==
    [eng |-> r.eng, raised |-> r.raised, linear |-> "done", mel |-> r.mel]

\* The outcome of a call that ran the mel stage only.
MelOnly(r) ==
    [eng |-> r.eng, raised |-> r.raised, linear |-> "none", mel |-> r.mel]

\* Mutant: the linear stage does not go on to the mel stage.
update_linear_only(e) ==
    IF StftRaises(e)
    THEN [eng |-> e, raised |-> TRUE, linear |-> "raised", mel |-> "none"]
    ELSE [eng |-> LinearAssigned(e, Frames(e.wav, e.n_fft, e.hop_length)),
          raised |-> FALSE, linear |-> "done", mel |-> "none"]

\* Spectrogram._update_linear
update_linear(e) ==
    IF StftRaises(e)
    THEN [eng |-> e, raised |-> TRUE, linear |-> "raised", mel |-> "none"]
    ELSE AfterLinear(update_mel(
             LinearAssigned(e, Frames(e.wav, e.n_fft, e.hop_length))))

\* Spectrogram.__init__: the object exists only if _update_linear returns.
Constructed(r) == IF r.raised THEN [r EXCEPT !.eng = NoEngine] ELSE r

init(file, wav, sr, win_ms, overlap, n_mel) ==
    Constructed(update_linear(
        [alive |-> TRUE, file |-> file, wav |-> wav, sr |-> sr,
         win_length |-> WinLength(sr, win_ms),
         hop_length |-> HopLength(WinLength(sr, win_ms), overlap),
         n_fft |-> NFft(WinLength(sr, win_ms)),
         n_mel |-> n_mel,
         spec |-> NoArray, linear |-> NoArray, mel |-> NoArray,
         t_axis |-> [len |-> 0, hop_length |-> 0],
         f_linear_axis |-> [len |-> 0, fmax |-> 0],
         f_linear_axis_str |-> [rows |-> 0, cols |-> 0],
         f_mel_axis |-> [len |-> 0, fmax |-> 0],
         f_mel_axis_str |-> [rows |-> 0, cols |-> 0]]))

\* Mutant: the overlap last given is stored and read back.
overlap_getter_stored(e) == [raised |-> FALSE, ret |-> given.overlap]

\* Spectrogram.overlap (getter): round(win_length / hop_length)
overlap_getter(e) ==
    IF e.hop_length = 0
    THEN [raised |-> TRUE, ret |-> 0]
    ELSE [raised |-> FALSE, ret |-> Round(e.win_length, e.hop_length)]

\* Spectrogram.win_ms (getter): round(win_length * 1000 / sr)
win_ms_getter(e) ==
    IF e.sr = 0
    THEN [raised |-> TRUE, ret |-> 0]
    ELSE [raised |-> FALSE, ret |-> Round(e.win_length * 1000, e.sr)]

Untouched(e) == [eng |-> e, raised |-> FALSE, linear |-> "none", mel |-> "none"]

\* Mutant: the setter compares the argument with the read-back overlap.
overlap_setter_on_input(e, overlap) ==
    IF e.hop_length # 0 /\ Round(e.win_length, e.hop_length) = overlap
    THEN Untouched(e)
    ELSE update_linear([e EXCEPT !.hop_length = HopLength(e.win_length, overlap)])

\* Mutant: the setter also derives the FFT size anew, from the hop length.
overlap_setter_refft(e, overlap) ==
    IF HopLength(e.win_length, overlap) = e.hop_length THEN Untouched(e)
    ELSE update_linear([e EXCEPT
             !.hop_length = HopLength(e.win_length, overlap),
             !.n_fft = NFft(HopLength(e.win_length, overlap))])

\* Spectrogram.overlap (setter)
overlap_setter(e, overlap) ==
    IF HopLength(e.win_length, overlap) = e.hop_length THEN Untouched(e)
    ELSE update_linear([e EXCEPT !.hop_length = HopLength(e.win_length, overlap)])

\* Mutant: the setter also re-derives the hop length from the overlap read back.
win_ms_setter_rehop(e, win_ms) ==
    IF WinLength(e.sr, win_ms) = e.win_length THEN Untouched(e)
    ELSE update_linear([e EXCEPT
             !.win_length = WinLength(e.sr, win_ms),
             !.n_fft = NFft(WinLength(e.sr, win_ms)),
             !.hop_length =
                 IF e.hop_length = 0 THEN 0
                 ELSE HopLength(WinLength(e.sr, win_ms),
                                Round(e.win_length, e.hop_length))])

\* Spectrogram.win_ms (setter)
win_ms_setter(e, win_ms) ==
    IF WinLength(e.sr, win_ms) = e.win_length THEN Untouched(e)
    ELSE update_linear([e EXCEPT !.win_length = WinLength(e.sr, win_ms),
                                 !.n_fft = NFft(WinLength(e.sr, win_ms))])

\* Mutant: every change rebuilds everything.
n_mel_setter_full(e, n_mel) ==
    IF n_mel = e.n_mel THEN Untouched(e)
    ELSE update_linear([e EXCEPT !.n_mel = n_mel])

\* Mutant: the setter does not compare with the stored value.
n_mel_setter_always(e, n_mel) ==
    MelOnly(update_mel([e EXCEPT !.n_mel = n_mel]))

\* Spectrogram.n_mel (setter)
n_mel_setter(e, n_mel) ==
    IF n_mel = e.n_mel THEN Untouched(e)
    ELSE MelOnly(update_mel([e EXCEPT !.n_mel = n_mel]))

(***************************************************************************)
(* The application: src/main.py.                                           *)
(***************************************************************************)
\* Uploaded files, by what sf.read makes of their bytes: "ok" decodes to a
\* waveform of `wav` samples at rate `sr`; "bad" makes sf.read raise.
Files ==
    { [name |-> "A", kind |-> "ok",  wav |-> 7, sr |-> 1000],
      [name |-> "B", kind |-> "bad", wav |-> 0, sr |-> 0],
      [name |-> "C", kind |-> "ok",  wav |-> 9, sr |-> 1000],
      [name |-> "D", kind |-> "ok",  wav |-> 0, sr |-> 1000] }

\* Position of a file in the listing the files are selected from.
Rank(f) == CASE f.name = "A" -> 1 [] f.name = "B" -> 2
             [] f.name = "C" -> 3 [] OTHER -> 4

\* An upload: a non-empty list of distinct files, in listing order.
Batches ==
    { b \in UNION { [1..n -> Files] : n \in 1..MaxBatch } :
        \A i, j \in DOMAIN b : i < j => Rank(b[i]) < Rank(b[j]) }

\* Values the parameter inputs can take (subsets of the dropdown options).
UiWinMs == {5, 40}
UiOverlaps == {4, 16}
UiNMels == {10, 128}
FreqScales == {"mel", "linear"}

Max(a, b) == IF a >= b THEN a ELSE b
Min(a, b) == IF a <= b THEN a ELSE b

\* Mutant: one worker per CPU.
WorkersPerCpu(cpus) == cpus

\* mp.cpu_count()//2, the number of workers of the pool.
Workers(cpus) == cpus \div 2

\* mp.Pool(mp.cpu_count()//2)
PoolSize == Workers(CpuCount)

\* max(2, mp.cpu_count() // len(contents_list))
Budget(cpus, files) == Max(2, cpus \div files)

\* data.y of a heatmap drawn on the mel scale (y=None).
YNone == [len |-> -1, fmax |-> -1]

NoTrace == [type |-> "none", name |-> ""]

\* go.Heatmap(...) in parse_contents
Heatmap(spec, fname, freq_scale) ==
    [type |-> "heatmap", name |-> fname,
     x |-> spec.t_axis,
     y |-> IF freq_scale = "mel" THEN YNone ELSE spec.f_linear_axis,
     z |-> IF freq_scale = "mel" THEN spec.mel ELSE spec.linear,
     customdata |-> IF freq_scale = "mel" THEN spec.f_mel_axis_str
                    ELSE spec.f_linear_axis_str]

\* go.Scattergl(...) in parse_contents
Scatter(spec, fname) ==
    [type |-> "scatter", name |-> fname, len |-> spec.wav]

\* parse_contents: what one job hands back.  "div" is the html.Div returned
\* when sf.read raises; "exception" is an exception leaving the function (the
\* constructor is called outside the try block); "tuple" is
\* (spec, heatmap, scatter).
\* parse_contents, lines 127-147, given the outcome r of the constructor.
Plots(r, fname, freq_scale) ==
    IF r.raised
    THEN [kind |-> "exception", spec |-> NoEngine,
          heatmap |-> NoTrace, scatter |-> NoTrace]
    ELSE [kind |-> "tuple", spec |-> r.eng,
          heatmap |-> Heatmap(r.eng, fname, freq_scale),
          scatter |-> Scatter(r.eng, fname)]

parse_contents(file, win_ms, overlap, n_mel, freq_scale, n_threads) ==
    IF file.kind = "bad"
    THEN [kind |-> "div", spec |-> NoEngine, heatmap |-> NoTrace,
          scatter |-> NoTrace]
    ELSE Plots(init(file.name, file.wav, file.sr, win_ms, overlap, n_mel),
               file.name, freq_scale)

NoResult == [kind |-> "pending", spec |-> NoEngine, heatmap |-> NoTrace,
             scatter |-> NoTrace]

\* n_threads = max(2, mp.cpu_count() // len(contents_list))
NThreads(n) == Budget(CpuCount, n)

\* Mutant: the budget is a constant of the program, that of a single file.
starmap_async_fixed_budget(batch, a) ==
    [jobs |-> [i \in 1..Len(batch) |->
                 [file |-> batch[i], win_ms |-> a.win_ms,
                  overlap |-> a.overlap, n_mel |-> a.n_mel,
                  freq_scale |-> a.freq_scale,
                  n_threads |-> NThreads(1),
                  status |-> "queued", result |-> NoResult]],
     finished |-> <<>>]

\* pool.starmap_async(parse_contents, [...]): one job per file, in order.
starmap_async(batch, a) ==
    [jobs |-> [i \in 1..Len(batch) |->
                 [file |-> batch[i], win_ms |-> a.win_ms,
                  overlap |-> a.overlap, n_mel |-> a.n_mel,
                  freq_scale |-> a.freq_scale,
                  n_threads |-> NThreads(Len(batch)),
                  status |-> "queued", result |-> NoResult]],
     finished |-> <<>>]

\* A worker applies parse_contents to the job's argument tuple.
run_job(j) ==
    parse_contents(j.file, j.win_ms, j.overlap, j.n_mel, j.freq_scale,
                   j.n_threads)

IdlePool == [jobs |-> <<>>, finished |-> <<>>]

\* Mutant: the results are listed in the order the jobs completed.
result_get_completion_order(p) ==
    IF \E i \in DOMAIN p.jobs : p.jobs[i].result.kind = "exception"
    THEN [raised |-> TRUE, value |-> <<>>]
    ELSE [raised |-> FALSE,
          value |-> [k \in 1..Len(p.finished) |-> p.jobs[p.finished[k]].result]]

\* result.get(): re-raises a job's exception, else the list of the jobs'
\* return values in submission order.
result_get(p) ==
    IF \E i \in DOMAIN p.jobs : p.jobs[i].result.kind = "exception"
    THEN [raised |-> TRUE, value |-> <<>>]
    ELSE [raised |-> FALSE,
          value |-> [i \in 1..Len(p.jobs) |-> p.jobs[i].result]]

NoFig == [none |-> TRUE, rows |-> 0, titles |-> <<>>, data |-> <<>>]

\* make_subplots(rows=len(contents_list), ..., subplot_titles=filenames)
make_subplots(batch) ==
    [none |-> FALSE, rows |-> Len(batch),
     titles |-> [i \in 1..Len(batch) |-> [text |-> batch[i].name, sr |-> -1]],
     data |-> <<>>]

\* update_graphs, lines 194-219: unpack each result as (spec, *plot),
\* annotate its subplot title, collect the engines, then add the traces row
\* by row.  Unpacking an html.Div raises; the engines of the earlier
\* positions are then already in the global list and no trace is added.
\* Positions of the results that do not unpack as (spec, *plot).
Divs(tups) == { i \in 1..Len(tups) : tups[i].kind # "tuple" }

\* Number of results the loop of line 196 gets through.
Unpacked(f, tups) ==
    Min(Len(f.titles),
        IF Divs(tups) = {} THEN Len(tups)
        ELSE (CHOOSE i \in Divs(tups) : \A j \in Divs(tups) : i <= j) - 1)

collect_first(f, tups, m, failed) ==
    [raised |-> failed,
     specs |-> [i \in 1..m |-> tups[i].spec],
     fig |-> [f EXCEPT
         !.titles = [i \in 1..Len(f.titles) |->
                        IF i <= m
                        THEN [f.titles[i] EXCEPT !.sr = tups[i].spec.sr]
                        ELSE f.titles[i]],
         !.data = IF failed THEN <<>>
                  ELSE [j \in 1..(2 * m) |->
                          IF j % 2 = 1
                          THEN tups[(j + 1) \div 2].heatmap
                          ELSE tups[j \div 2].scatter]]]

collect(f, tups) == collect_first(f, tups, Unpacked(f, tups), Divs(tups) # {})

\* update_graphs, lines 222-237, for one engine and its heatmap.
\* Lines 227-237: the heatmap is pointed at the engine's current arrays.
refresh(s, data, freq_scale) ==
    IF freq_scale = "mel"
    THEN [data EXCEPT !.x = s.t_axis, !.z = s.mel,
                      !.customdata = IF data.y # YNone
                                     THEN s.f_mel_axis_str ELSE @,
                      !.y = YNone]
    ELSE [data EXCEPT !.x = s.t_axis, !.z = s.linear,
                      !.customdata = IF data.y = YNone
                                     THEN s.f_linear_axis_str ELSE @,
                      !.y = s.f_linear_axis]

Stopped(r, data) == [eng |-> r.eng, data |-> data, raised |-> TRUE]

\* Lines 224-237, given the outcome r of `spec.n_mel = n_mel`.
after_n_mel(r, data, a) ==
    IF r.raised THEN Stopped(r, data)
    ELSE [eng |-> r.eng, data |-> refresh(r.eng, data, a.freq_scale),
          raised |-> FALSE]

\* Lines 224-237, given the outcome r of `spec.overlap = overlap`.
after_overlap(r, data, a) ==
    IF r.raised THEN Stopped(r, data)
    ELSE after_n_mel(IF a.n_mel # 0 THEN n_mel_setter(r.eng, a.n_mel)
                     ELSE Untouched(r.eng), data, a)

\* Lines 223-237, given the outcome r of `spec.win_ms = win_ms`.
after_win_ms(r, data, a) ==
    IF r.raised THEN Stopped(r, data)
    ELSE after_overlap(overlap_setter(r.eng, a.overlap), data, a)

apply_one(e, data, a) == after_win_ms(win_ms_setter(e, a.win_ms), data, a)

\* update_graphs, lines 221-237: for spec, data in zip(specs, fig.data[::2])
RECURSIVE param_loop(_, _, _, _)
param_step(r, ss, data, i, a) ==
    IF r.raised
    THEN [specs |-> [ss EXCEPT ![i] = r.eng], data |-> data, raised |-> TRUE]
    ELSE param_loop([ss EXCEPT ![i] = r.eng],
                    [data EXCEPT ![2 * i - 1] = r.data], i + 1, a)

param_loop(ss, data, i, a) ==
    IF i > Min(Len(ss), (Len(data) + 1) \div 2)
    THEN [specs |-> ss, data |-> data, raised |-> FALSE]
    ELSE param_step(apply_one(ss[i], data[2 * i - 1], a), ss, data, i, a)

Args(u) == [win_ms |-> u.win_ms, overlap |-> u.overlap, n_mel |-> u.n_mel,
            freq_scale |-> u.freq_scale]

\* trigger, result, at: the most recent execution; upload: how the most
\* recent upload ended ("collected": lines 193-219 were completed);
\* in_order: whether its jobs completed in the order they were submitted.
NoOut == [trigger |-> "none", result |-> "none", at |-> "", upload |-> "none",
          in_order |-> TRUE]

InOrder(p) == \A k \in DOMAIN p.finished : p.finished[k] = k

\* The input that triggered the callback, as the callback tells them apart.
Param == "param"

InitApp ==
    /\ specs = <<>>
    /\ fig = NoFig
    /\ ui = [contents |-> <<>>, freq_scale |-> "mel", win_ms |-> 40,
             overlap |-> 4, n_mel |-> 128]
    /\ pool = IdlePool
    /\ cb = [pc |-> "idle", args |-> Args(ui)]
    /\ out = NoOut

\* update_graphs triggered by 'upload-audio', lines 160-192: the jobs are
\* submitted, the global figure is replaced by empty subplots, and the
\* callback blocks in result.get().
Upload ==
    /\ cb.pc = "idle"
    /\ \E batch \in Batches :
          /\ ui' = [ui EXCEPT !.contents = batch]
          /\ pool' = starmap_async(batch, Args(ui))
          /\ fig' = make_subplots(batch)
          /\ cb' = [pc |-> "get", args |-> Args(ui)]
    /\ UNCHANGED <<specs, out>>
    /\ UNCHANGED <<engVars, thr>>

\* A pool worker takes the next queued job.
WorkerStart ==
    /\ cb.pc = "get"
    /\ Cardinality({ i \in DOMAIN pool.jobs : pool.jobs[i].status = "running" })
          < PoolSize
    /\ \E i \in DOMAIN pool.jobs :
          /\ pool.jobs[i].status = "queued"
          /\ \A j \in 1..(i - 1) : pool.jobs[j].status # "queued"
          /\ pool' = [pool EXCEPT !.jobs[i].status = "running"]
    /\ UNCHANGED <<specs, fig, ui, cb, out>>
    /\ UNCHANGED <<engVars, thr>>

\* A running job completes; jobs complete in any order.
WorkerFinish ==
    /\ cb.pc = "get"
    /\ \E i \in DOMAIN pool.jobs :
          /\ pool.jobs[i].status = "running"
          /\ pool' = [pool EXCEPT
                 !.jobs[i].status = "done",
                 !.jobs[i].result = run_job(pool.jobs[i]),
                 !.finished = Append(@, i)]
    /\ UNCHANGED <<specs, fig, ui, cb, out>>
    /\ UNCHANGED <<engVars, thr>>

\* Lines 221-239 of an upload, given the outcome l of the parameter loop.
Returned(l, f) ==
    /\ out' = [trigger |-> "upload-audio",
               result |-> IF l.raised THEN "raised" ELSE "fig",
               at |-> IF l.raised THEN "setter" ELSE "",
               upload |-> "collected", in_order |-> InOrder(pool)]
    /\ specs' = l.specs
    /\ fig' = [f EXCEPT !.data = l.data]

\* Lines 194-239, given the outcome c of unpacking the results.
Unpack(c) ==
    IF c.raised
    THEN /\ out' = [trigger |-> "upload-audio", result |-> "raised",
                    at |-> "unpack", upload |-> "raised_unpack",
                    in_order |-> InOrder(pool)]
         /\ specs' = c.specs
         /\ fig' = c.fig
    ELSE Returned(param_loop(c.specs, c.fig.data, 1, cb.args), c.fig)

\* Lines 193-239, given the outcome g of result.get().
Collected(g) ==
    IF g.raised
    THEN /\ out' = [trigger |-> "upload-audio", result |-> "raised",
                    at |-> "get", upload |-> "raised_get",
                    in_order |-> InOrder(pool)]
         /\ UNCHANGED <<specs, fig>>
    ELSE Unpack(collect(fig, g.value))

\* update_graphs, lines 193-239, once every job of the batch is done.
Collect ==
    /\ cb.pc = "get"
    /\ \A i \in DOMAIN pool.jobs : pool.jobs[i].status = "done"
    /\ Collected(result_get(pool))
    /\ pool' = IdlePool
    /\ cb' = [cb EXCEPT !.pc = "idle"]
    /\ UNCHANGED ui
    /\ UNCHANGED <<engVars, thr>>

\* Lines 221-239 of a parameter change, given the outcome l of the loop.
ParamApplied(l, trigger) ==
    /\ specs' = l.specs
    /\ fig' = [fig EXCEPT !.data = l.data]
    /\ out' = [out EXCEPT !.trigger = trigger,
                          !.result = IF l.raised THEN "raised" ELSE "fig",
                          !.at = IF l.raised THEN "setter" ELSE ""]

\* Mutant: a parameter input re-submits the uploaded files to the pool.
ParamChangeRedispatch(trigger, u) ==
    /\ cb.pc = "idle"
    /\ ui' = u
    /\ IF u.contents = <<>>
       THEN /\ out' = [out EXCEPT !.trigger = trigger, !.result = "empty",
                                  !.at = ""]
            /\ cb' = [pc |-> "idle", args |-> Args(u)]
            /\ UNCHANGED <<specs, fig, pool>>
       ELSE /\ pool' = starmap_async(u.contents, Args(u))
            /\ fig' = make_subplots(u.contents)
            /\ cb' = [pc |-> "get", args |-> Args(u)]
            /\ UNCHANGED <<specs, out>>
    /\ UNCHANGED <<engVars, thr>>

\* update_graphs triggered by a parameter input, lines 160-173 and 221-239.
ParamChange(trigger, u) ==
    /\ cb.pc = "idle"
    /\ ui' = u
    /\ IF u.contents = <<>>
       THEN /\ out' = [out EXCEPT !.trigger = trigger, !.result = "empty",
                                  !.at = ""]
            /\ UNCHANGED <<specs, fig>>
       ELSE ParamApplied(param_loop(specs, fig.data, 1, Args(u)), trigger)
    /\ cb' = [pc |-> "idle", args |-> Args(u)]
    /\ UNCHANGED pool
    /\ UNCHANGED <<engVars, thr>>

ChangeFreqScale ==
    \E v \in FreqScales \ {ui.freq_scale} :
        ParamChange(Param, [ui EXCEPT !.freq_scale = v])

ChangeWinMs ==
    \E v \in UiWinMs \ {ui.win_ms} :
        ParamChange(Param, [ui EXCEPT !.win_ms = v])

ChangeOverlap ==
    \E v \in UiOverlaps \ {ui.overlap} :
        ParamChange(Param, [ui EXCEPT !.overlap = v])

ChangeNMel ==
    \E v \in UiNMels \ {ui.n_mel} :
        ParamChange(Param, [ui EXCEPT !.n_mel = v])

(***************************************************************************)
(* Request threads.  app.run_server starts Flask's development server,     *)
(* which serves every request in a thread of its own; update_graphs takes  *)
(* no lock, and `specs` and `fig` are module globals shared by the         *)
(* threads.  A thread's execution of the loop of lines 221-237 is split at *)
(* the points where the engine hands control to numpy/librosa: the entry   *)
(* of a setter (comparison and assignment of the derived length), the      *)
(* linear stage of _update_linear, and _update_mel.                        *)
(***************************************************************************)
Threads == 1..MaxThreads

\* A thread that is serving no request.
IdleThread == [pc |-> "idle", op |-> "", i |-> 0, n |-> 0]

InitThreads == thr = [t \in Threads |-> IdleThread]

\* pool.starmap_async(...) followed by result.get() once every job has run.
served(p) ==
    [p EXCEPT !.jobs = [i \in DOMAIN p.jobs |->
                          [p.jobs[i] EXCEPT !.status = "done",
                                            !.result = run_job(p.jobs[i])]]]

\* Uploads every file of which yields an engine.
GoodBatches ==
    { b \in Batches : \A i \in DOMAIN b : b[i].kind = "ok" /\ b[i].wav > 0 }

\* Lines 194-239 of an upload served while no other request is in progress.
Loaded(c, a) ==
    /\ specs' = param_loop(c.specs, c.fig.data, 1, a).specs
    /\ fig' = [c.fig EXCEPT !.data = param_loop(c.specs, c.fig.data, 1, a).data]

\* An upload, served from start to end by one thread while the others are
\* idle.
TLoad ==
    /\ specs = <<>>
    /\ \A t \in Threads : thr[t].pc = "idle"
    /\ \E batch \in GoodBatches :
          /\ ui' = [ui EXCEPT !.contents = batch]
          /\ Loaded(collect(make_subplots(batch),
                            result_get(served(starmap_async(batch, Args(ui)))).value),
                    Args(ui))
    /\ UNCHANGED <<pool, cb, out, thr>>
    /\ UNCHANGED engVars

\* The input values after one parameter input has been changed.
ParamInputs(u) ==
    { [u EXCEPT !.freq_scale = v] : v \in FreqScales \ {u.freq_scale} }
    \cup { [u EXCEPT !.win_ms = v] : v \in UiWinMs \ {u.win_ms} }
    \cup { [u EXCEPT !.overlap = v] : v \in UiOverlaps \ {u.overlap} }
    \cup { [u EXCEPT !.n_mel = v] : v \in UiNMels \ {u.n_mel} }

\* The thread's position after the body of the loop has ended for engine i.
NextEngine(th) ==
    IF th.i + 1 > Min(Len(specs), (Len(fig.data) + 1) \div 2)
    THEN [IdleThread EXCEPT !.n = th.n]
    ELSE [th EXCEPT !.pc = "call", !.op = "win_ms", !.i = th.i + 1]

\* A request for a parameter input arrives and its thread enters
\* update_graphs: lines 160-173, then the loop header of line 221.
TBegin(t) ==
    /\ thr[t].pc = "idle"
    /\ thr[t].n < MaxRequests
    /\ specs # <<>>
    /\ \E u \in ParamInputs(ui) :
          /\ ui' = u
          /\ thr' = [thr EXCEPT ![t] =
                 [pc |-> "call", op |-> "win_ms", i |-> 1, n |-> thr[t].n + 1,
                  args |-> Args(u)]]
    /\ UNCHANGED <<specs, fig, pool, cb, out>>
    /\ UNCHANGED engVars

\* Line 222, `spec.win_ms = win_ms`, up to the call of _update_linear
\* (src/spec.py lines 58-62).
TSetWinMs(t) ==
    /\ thr[t].pc = "call" /\ thr[t].op = "win_ms"
    /\ IF WinLength(specs[thr[t].i].sr, thr[t].args.win_ms)
            = specs[thr[t].i].win_length
       THEN /\ thr' = [thr EXCEPT ![t].op = "overlap"]
            /\ UNCHANGED specs
       ELSE /\ thr' = [thr EXCEPT ![t].pc = "linear"]
            /\ specs' = [specs EXCEPT
                   ![thr[t].i].win_length =
                       WinLength(specs[thr[t].i].sr, thr[t].args.win_ms),
                   ![thr[t].i].n_fft =
                       NFft(WinLength(specs[thr[t].i].sr, thr[t].args.win_ms))]
    /\ UNCHANGED <<fig, ui, pool, cb, out>>
    /\ UNCHANGED engVars

\* Line 223, `spec.overlap = overlap`, up to the call of _update_linear
\* (src/spec.py lines 46-49).
TSetOverlap(t) ==
    /\ thr[t].pc = "call" /\ thr[t].op = "overlap"
    /\ IF HopLength(specs[thr[t].i].win_length, thr[t].args.overlap)
            = specs[thr[t].i].hop_length
       THEN /\ thr' = [thr EXCEPT ![t].op = "n_mel"]
            /\ UNCHANGED specs
       ELSE /\ thr' = [thr EXCEPT ![t].pc = "linear"]
            /\ specs' = [specs EXCEPT ![thr[t].i].hop_length =
                   HopLength(specs[thr[t].i].win_length, thr[t].args.overlap)]
    /\ UNCHANGED <<fig, ui, pool, cb, out>>
    /\ UNCHANGED engVars

\* Lines 224-225, `spec.n_mel = n_mel`, up to the call of _update_mel
\* (src/spec.py lines 71-73).
TSetNMel(t) ==
    /\ thr[t].pc = "call" /\ thr[t].op = "n_mel"
    /\ IF thr[t].args.n_mel = 0 \/ thr[t].args.n_mel = specs[thr[t].i].n_mel
       THEN /\ thr' = [thr EXCEPT ![t].pc = "refresh"]
            /\ UNCHANGED specs
       ELSE /\ thr' = [thr EXCEPT ![t].pc = "mel"]
            /\ specs' = [specs EXCEPT ![thr[t].i].n_mel = thr[t].args.n_mel]
    /\ UNCHANGED <<fig, ui, pool, cb, out>>
    /\ UNCHANGED engVars

\* _update_linear, lines 77-89, run by the thread for the setter it is in:
\* the STFT of the engine's lengths as they are now, or the exception that
\* ends the request.
TLinear(t) ==
    /\ thr[t].pc = "linear"
    /\ IF StftRaises(specs[thr[t].i])
       THEN /\ thr' = [thr EXCEPT ![t] = [IdleThread EXCEPT !.n = thr[t].n]]
            /\ UNCHANGED specs
       ELSE /\ thr' = [thr EXCEPT ![t].pc = "mel"]
            /\ specs' = [specs EXCEPT ![thr[t].i] =
                   LinearAssigned(@, Frames(@.wav, @.n_fft, @.hop_length))]
    /\ UNCHANGED <<fig, ui, pool, cb, out>>
    /\ UNCHANGED engVars

\* The setter that follows the one the thread has completed.
AfterSetter(th) ==
    IF th.op = "win_ms" THEN [th EXCEPT !.pc = "call", !.op = "overlap"]
    ELSE IF th.op = "overlap" THEN [th EXCEPT !.pc = "call", !.op = "n_mel"]
    ELSE [th EXCEPT !.pc = "refresh"]

\* _update_mel, run by the thread for the setter it is in.
TMel(t) ==
    /\ thr[t].pc = "mel"
    /\ IF MelRaises(specs[thr[t].i])
       THEN /\ thr' = [thr EXCEPT ![t] = [IdleThread EXCEPT !.n = thr[t].n]]
            /\ UNCHANGED specs
       ELSE /\ thr' = [thr EXCEPT ![t] = AfterSetter(thr[t])]
            /\ specs' = [specs EXCEPT ![thr[t].i] = update_mel(@).eng]
    /\ UNCHANGED <<fig, ui, pool, cb, out>>
    /\ UNCHANGED engVars

\* Lines 227-237: the thread reads the engine's arrays into the heatmap, then
\* goes on with the next engine or returns the figure.
TRefresh(t) ==
    /\ thr[t].pc = "refresh"
    /\ fig' = [fig EXCEPT !.data[2 * thr[t].i - 1] =
                  refresh(specs[thr[t].i], @, thr[t].args.freq_scale)]
    /\ thr' = [thr EXCEPT ![t] = NextEngine(thr[t])]
    /\ UNCHANGED <<specs, ui, pool, cb, out>>
    /\ UNCHANGED engVars

NextThreads ==
    \/ TLoad
    \/ \E t \in Threads : TBegin(t)
    \/ \E t \in Threads : TSetWinMs(t)
    \/ \E t \in Threads : TSetOverlap(t)
    \/ \E t \in Threads : TSetNMel(t)
    \/ \E t \in Threads : TLinear(t)
    \/ \E t \in Threads : TMel(t)
    \/ \E t \in Threads : TRefresh(t)

(***************************************************************************)
(* Specification Spec: one engine driven through its public interface by   *)
(* an arbitrary caller.                                                    *)
(***************************************************************************)
\* op, arg: the call; raised, linear, mel, ret: how it ended; prev: the call
\* before it.  A read keeps the argument of the call before it.
NoCall == [op |-> "none", arg |-> 0, raised |-> FALSE,
           linear |-> "none", mel |-> "none", ret |-> 0, prev |-> "none"]

\* The engine and the call record after a call with outcome r.
Called(op, arg, r) ==
    /\ eng' = r.eng
    /\ call' = [op |-> op, arg |-> arg, raised |-> r.raised,
                linear |-> r.linear, mel |-> r.mel, ret |-> 0,
                prev |-> call.op]

\* The call record after reading a property, with outcome g.
Read(op, g) ==
    call' = [NoCall EXCEPT !.op = op, !.raised = g.raised, !.ret = g.ret,
                           !.arg = call.arg, !.prev = call.op]

InitEngine ==
    /\ eng = NoEngine
    /\ call = NoCall
    /\ given = [win_ms |-> 0, overlap |-> 0]

Construct ==
    /\ ~eng.alive
    /\ \E wav \in WavLens, sr \in SampleRates, w \in WinMsValues,
          v \in OverlapValues, x \in NMelValues :
          /\ Called("init", x, init("f", wav, sr, w, v, x))
          /\ given' = [win_ms |-> w, overlap |-> v]
    /\ UNCHANGED <<appVars, thr>>

SetWinMs ==
    /\ eng.alive
    /\ \E w \in WinMsValues :
          /\ Called("set_window_ms", w, win_ms_setter(eng, w))
          /\ given' = [given EXCEPT !.win_ms = w]
    /\ UNCHANGED <<appVars, thr>>

SetOverlap ==
    /\ eng.alive
    /\ \E v \in OverlapValues :
          /\ Called("set_overlap", v, overlap_setter(eng, v))
          /\ given' = [given EXCEPT !.overlap = v]
    /\ UNCHANGED <<appVars, thr>>

SetNMel ==
    /\ eng.alive
    /\ \E x \in NMelValues :
          /\ Called("set_n_mel", x, n_mel_setter(eng, x))
          /\ UNCHANGED given
    /\ UNCHANGED <<appVars, thr>>

GetOverlap ==
    /\ eng.alive
    /\ Read("get_overlap", overlap_getter(eng))
    /\ UNCHANGED <<eng, given>>
    /\ UNCHANGED <<appVars, thr>>

GetWinMs ==
    /\ eng.alive
    /\ Read("get_win_ms", win_ms_getter(eng))
    /\ UNCHANGED <<eng, given>>
    /\ UNCHANGED <<appVars, thr>>

Next ==
    \/ Construct
    \/ SetWinMs
    \/ SetOverlap
    \/ SetNMel
    \/ GetOverlap
    \/ GetWinMs

Init == InitEngine /\ InitApp /\ InitThreads

Spec == Init /\ [][Next]_vars

(***************************************************************************)
(* Specification SpecApp: the application's callback, driven by uploads    *)
(* and parameter inputs, one update_graphs execution at a time.            *)
(***************************************************************************)
NextApp ==
    \/ Upload
    \/ WorkerStart
    \/ WorkerFinish
    \/ Collect
    \/ ChangeFreqScale
    \/ ChangeWinMs
    \/ ChangeOverlap
    \/ ChangeNMel

SpecApp == Init /\ [][NextApp]_vars

(***************************************************************************)
(* Specification SpecThreads: parameter requests served concurrently, each *)
(* in a thread of its own, on the engines of one upload.                   *)
(***************************************************************************)
SpecThreads == Init /\ [][NextThreads]_vars

(***************************************************************************)
(* Properties of the engine, checked under Spec.                           *)
(***************************************************************************)
\* The step is a call of the named setter on a live engine.
IsCall(op) == eng.alive /\ eng'.alive /\ call'.op = op

\* No attribute of the linear stage, and no derived length, was assigned.
LinearStageKept ==
    /\ eng'.spec = eng.spec
    /\ eng'.linear = eng.linear
    /\ eng'.t_axis = eng.t_axis
    /\ eng'.f_linear_axis = eng.f_linear_axis
    /\ eng'.f_linear_axis_str = eng.f_linear_axis_str
    /\ eng'.win_length = eng.win_length
    /\ eng'.hop_length = eng.hop_length
    /\ eng'.n_fft = eng.n_fft

MelStageKept ==
    /\ eng'.mel = eng.mel
    /\ eng'.f_mel_axis = eng.f_mel_axis
    /\ eng'.f_mel_axis_str = eng.f_mel_axis_str

\* The linear attributes were assigned arrays computed from the post-state's
\* window length, hop length and FFT size.
LinearStageFresh ==
    /\ call'.linear = "done"
    /\ eng'.spec.win_length = eng'.win_length
    /\ eng'.spec.hop_length = eng'.hop_length
    /\ eng'.spec.n_fft = eng'.n_fft
    /\ eng'.linear.rows = eng'.spec.rows
    /\ eng'.linear.frames = eng'.spec.frames
    /\ eng'.t_axis.len = eng'.spec.frames

\* The mel attributes were assigned arrays computed from the post-state's
\* magnitude array, FFT size and n_mel.
MelStageFresh ==
    /\ call'.mel = "done"
    /\ eng'.mel.src = eng'.spec
    /\ eng'.mel.n_fft = eng'.n_fft
    /\ eng'.mel.n_mel = eng'.n_mel
    /\ eng'.f_mel_axis.len = eng'.n_mel
    /\ eng'.f_mel_axis_str.rows = eng'.n_mel

\* C1: set_n_mel(x) with x different from the current n_mel runs the mel
\* stage and nothing else: the magnitude array, the linear dB array, the time
\* axis, the linear frequency axis and its labels, window_length_samples,
\* hop_length_samples and fft_size are the same objects and values as before;
\* n_mel becomes x and, when the filterbank product does not raise, the mel
\* dB array, mel axis and mel labels are rebuilt for x from the cached
\* magnitude array.
C1_SetNMelRecomputesOnlyMel ==
    [][ (IsCall("set_n_mel") /\ call'.arg # eng.n_mel) =>
            /\ LinearStageKept
            /\ call'.linear = "none"
            /\ eng'.n_mel = call'.arg
            /\ call'.mel \in {"done", "raised"}
            /\ (call'.mel = "done" => MelStageFresh /\ ~call'.raised)
            /\ (call'.mel = "raised" => MelStageKept /\ call'.raised) ]_vars

\* C1 witness: a set_n_mel call that rebuilt the mel stage.
C1_Witness ==
    /\ eng.alive
    /\ call.op = "set_n_mel" /\ call.mel = "done" /\ call.linear = "none"
    /\ eng.n_mel = call.arg /\ eng.mel.n_mel = call.arg

\* C2 as stated: every set_window_ms(w) with w different from the window_ms
\* read back, and every set_overlap(v) with v different from the overlap read
\* back, runs the recomputation of the linear and the mel spectrogram.
C2_AsStated ==
    [][ /\ (IsCall("set_window_ms") /\ ~win_ms_getter(eng).raised
               /\ call'.arg # win_ms_getter(eng).ret)
           => call'.linear # "none"
        /\ (IsCall("set_overlap") /\ ~overlap_getter(eng).raised
               /\ call'.arg # overlap_getter(eng).ret)
           => call'.linear # "none" ]_vars

\* C2 amended: what invalidates both products is a change of the derived
\* length.  set_window_ms(w) with round(sr*w/1000) different from the stored
\* window length, and set_overlap(v) with round(window_length/v) different
\* from the stored hop length, run the linear recomputation, which either
\* raises or replaces the linear products and then the mel products; a call
\* whose derived length equals the stored one recomputes nothing, whatever
\* the value read back.
C2_DerivedLengthInvalidatesBoth ==
    [][ /\ IsCall("set_window_ms") =>
             IF Round(eng.sr * call'.arg, 1000) # eng.win_length
             THEN call'.linear \in {"done", "raised"}
                  /\ (call'.linear = "done" => LinearStageFresh /\ MelStageFresh)
             ELSE call'.linear = "none" /\ call'.mel = "none"
        /\ IsCall("set_overlap") =>
             IF Round(eng.win_length, call'.arg) # eng.hop_length
             THEN call'.linear \in {"done", "raised"}
                  /\ (call'.linear = "done" => LinearStageFresh /\ MelStageFresh)
             ELSE call'.linear = "none" /\ call'.mel = "none" ]_vars

\* C2 witness: a set_overlap(v) that returned without recomputing although v
\* is not the overlap the engine reads back.
C2_Witness ==
    /\ eng.alive
    /\ call.op = "set_overlap" /\ call.linear = "none" /\ ~call.raised
    /\ eng.hop_length > 0
    /\ overlap_getter(eng).ret # call.arg

\* C3 as stated: with h = round(window_length/v), h equal to the stored hop
\* length changes nothing; otherwise the hop length becomes h and the linear
\* and then the mel recomputation are performed.
C3_AsStated ==
    [][ IsCall("set_overlap") =>
          LET h == Round(eng.win_length, call'.arg)
          IN  IF h = eng.hop_length
              THEN eng' = eng /\ call'.linear = "none" /\ call'.mel = "none"
              ELSE eng'.hop_length = h /\ LinearStageFresh /\ MelStageFresh ]_vars

\* C3 amended: set_overlap(v) decides on h = round(window_length/v).  If h
\* equals the stored hop length nothing changes and nothing is recomputed.
\* Otherwise hop_length_samples becomes h; for h >= 1 the linear and then the
\* mel recomputation are performed, and for h = 0 the linear recomputation
\* raises, no product is replaced and the hop length stays 0.
C3_SetOverlapDecidesOnHop ==
    [][ IsCall("set_overlap") =>
          LET h == Round(eng.win_length, call'.arg)
          IN  IF h = eng.hop_length
              THEN eng' = eng /\ call'.linear = "none" /\ call'.mel = "none"
                   /\ ~call'.raised
              ELSE /\ eng'.hop_length = h
                   /\ eng'.win_length = eng.win_length
                   /\ eng'.n_fft = eng.n_fft
                   /\ IF h >= 1
                      THEN LinearStageFresh /\ MelStageFresh /\ ~call'.raised
                      ELSE /\ call'.raised /\ call'.linear = "raised"
                           /\ call'.mel = "none"
                           /\ eng' = [eng EXCEPT !.hop_length = 0] ]_vars

\* C3 witness: two different overlap inputs derive the same hop length and
\* the second call recomputed nothing.
C3_Witness ==
    /\ eng.alive
    /\ call.op = "set_overlap" /\ call.linear = "none"
    /\ eng.hop_length >= 1
    /\ \E v \in OverlapValues :
          v # call.arg /\ Round(eng.win_length, v) = eng.hop_length

\* C4 as stated: with L = round(sample_rate*w/1000), L equal to the stored
\* window length changes nothing; otherwise the window length becomes L,
\* fft_size is recomputed from L and the linear and then the mel
\* recomputation are performed.
C4_AsStated ==
    [][ IsCall("set_window_ms") =>
          LET L == Round(eng.sr * call'.arg, 1000)
          IN  IF L = eng.win_length
              THEN eng' = eng /\ call'.linear = "none" /\ call'.mel = "none"
              ELSE /\ eng'.win_length = L
                   /\ LinearStageFresh /\ MelStageFresh ]_vars

IsPow2(n) == \E k \in 0..(MaxLog + 1) : n = Pow2(k)

\* n is the smallest power of two that is >= w.
SmallestPow2AtLeast(n, w) ==
    /\ IsPow2(n)
    /\ n >= w
    /\ \A m \in 1..n : (IsPow2(m) /\ m >= w) => m >= n

\* C4 amended: set_window_ms(w) decides on L = round(sample_rate*w/1000).  If
\* L equals the stored window length nothing changes.  Otherwise the window
\* length becomes L and fft_size is recomputed from L (the smallest power of
\* two >= L, and 0 for L = 0), the hop length is kept, and the linear and
\* then the mel recomputation are performed when L >= 1 and the stored hop
\* length is >= 1; when L = 0 or the stored hop length is 0 the linear
\* recomputation raises and no product is replaced.
C4_SetWindowMsDecidesOnLength ==
    [][ IsCall("set_window_ms") =>
          LET L == Round(eng.sr * call'.arg, 1000)
          IN  IF L = eng.win_length
              THEN eng' = eng /\ call'.linear = "none" /\ call'.mel = "none"
                   /\ ~call'.raised
              ELSE /\ eng'.win_length = L
                   /\ eng'.hop_length = eng.hop_length
                   /\ IF L = 0 THEN eng'.n_fft = 0
                      ELSE SmallestPow2AtLeast(eng'.n_fft, L)
                   /\ IF L >= 1 /\ eng.hop_length >= 1
                      THEN LinearStageFresh /\ MelStageFresh /\ ~call'.raised
                      ELSE /\ call'.raised /\ call'.linear = "raised"
                           /\ call'.mel = "none"
                           /\ eng'.spec = eng.spec /\ eng'.linear = eng.linear
                           /\ eng'.t_axis = eng.t_axis
                           /\ MelStageKept ]_vars

\* C4 witness: a set_window_ms call that changed the window length and the
\* FFT size and rebuilt both products.
C4_Witness ==
    /\ eng.alive
    /\ call.op = "set_window_ms" /\ call.linear = "done" /\ call.mel = "done"
    /\ eng.win_length = Round(eng.sr * call.arg, 1000)
    /\ eng.n_fft > eng.win_length

\* C5 as stated: in every reachable engine state fft_size is a power of two,
\* fft_size >= window_length_samples, it is the smallest such power of two,
\* and window_length_samples = round(sample_rate*window_ms/1000) for the
\* window_ms last applied.
C5_AsStated ==
    eng.alive =>
        /\ eng.win_length = Round(eng.sr * given.win_ms, 1000)
        /\ SmallestPow2AtLeast(eng.n_fft, eng.win_length)

\* C6 as stated: in every reachable engine state hop_length_samples =
\* round(window_length_samples / overlap) for the overlap most recently
\* given and the current window length.
C6_AsStated ==
    eng.alive => eng.hop_length = Round(eng.win_length, given.overlap)

\* C6 amended: hop_length_samples = round(window_length_samples / overlap),
\* for the overlap just given and the current window length, holds after
\* construction and after every set_overlap call; set_window_ms and set_n_mel
\* never change hop_length_samples, so after set_window_ms has changed the
\* window length the hop length is still the one derived from the previous
\* window length, until set_overlap is called again.
C6_HopFollowsOverlapCallsOnly ==
    [][ /\ (eng'.alive /\ call'.op \in {"init", "set_overlap"})
            => eng'.hop_length = Round(eng'.win_length, given'.overlap)
        /\ (IsCall("set_window_ms") \/ IsCall("set_n_mel"))
            => eng'.hop_length = eng.hop_length ]_vars

\* C6 witness: set_window_ms changed the window length and the hop length is
\* no longer round(window_length / overlap).
C6_Witness ==
    /\ eng.alive
    /\ call.op = "set_window_ms" /\ call.linear = "done"
    /\ eng.hop_length # Round(eng.win_length, given.overlap)

\* C9 as stated: every set_overlap(v) call whose derived hop length
\* round(window_length_samples / v) is 0 raises.
C9_AsStated ==
    [][ (IsCall("set_overlap") /\ Round(eng.win_length, call'.arg) = 0)
            => call'.raised ]_vars

(***************************************************************************)
(* Properties of the application, checked under SpecApp.                   *)
(***************************************************************************)
\* The most recent update_graphs execution was an upload and has ended.
UploadEnded == cb.pc = "idle" /\ out.trigger = "upload-audio"

\* The file decodes and an engine can be built from it with the parameters
\* currently selected.
Builds(f) ==
    f.kind = "ok" /\ ~init(f.name, f.wav, f.sr, ui.win_ms, ui.overlap,
                           ui.n_mel).raised

\* C7 as stated: when any subset of the files of an upload fails to decode
\* (and an engine can be built from each of the others), update_graphs
\* completes without raising, with an error placeholder at exactly the
\* positions of the failed files and an engine for every other file.
C7_AsStated ==
    /\ \A i \in DOMAIN pool.jobs :
          pool.jobs[i].status = "done" =>
              (pool.jobs[i].result.kind = "div" <=> pool.jobs[i].file.kind = "bad")
    /\ (UploadEnded /\ \A i \in DOMAIN ui.contents :
                           ui.contents[i].kind = "bad" \/ Builds(ui.contents[i]))
          => /\ out.result = "fig"
             /\ Len(specs) =
                  Cardinality({ i \in DOMAIN ui.contents : ui.contents[i].kind = "ok" })

\* C8: whatever the order in which the workers complete the jobs, the i-th
\* collected result is the one computed from the i-th file; after the upload
\* has been collected the i-th engine of the session list, the i-th subplot
\* title and the traces of the i-th row belong to the i-th file, also after
\* later parameter changes; and when unpacking stopped at an error
\* placeholder the engines stored so far are those of the first files, in
\* order.
C8_OrderPreserved ==
    /\ (cb.pc = "get" /\ \A i \in DOMAIN pool.jobs : pool.jobs[i].status = "done"
           /\ ~result_get(pool).raised)
          => /\ Len(result_get(pool).value) = Len(ui.contents)
             /\ \A i \in DOMAIN ui.contents :
                  LET t == result_get(pool).value[i]
                  IN  /\ t.kind = "div" <=> ui.contents[i].kind = "bad"
                      /\ t.kind = "tuple" =>
                           /\ t.spec.file = ui.contents[i].name
                           /\ t.heatmap.name = ui.contents[i].name
                           /\ t.scatter.name = ui.contents[i].name
    /\ (cb.pc = "idle" /\ out.upload = "collected")
          => /\ Len(specs) = Len(ui.contents)
             /\ Len(fig.data) = 2 * Len(ui.contents)
             /\ fig.rows = Len(ui.contents)
             /\ \A i \in DOMAIN ui.contents :
                  /\ specs[i].file = ui.contents[i].name
                  /\ specs[i].wav = ui.contents[i].wav
                  /\ fig.titles[i].text = ui.contents[i].name
                  /\ fig.titles[i].sr = ui.contents[i].sr
                  /\ fig.data[2 * i - 1].type = "heatmap"
                  /\ fig.data[2 * i - 1].name = ui.contents[i].name
                  /\ fig.data[2 * i].type = "scatter"
                  /\ fig.data[2 * i].name = ui.contents[i].name
    /\ (cb.pc = "idle" /\ out.upload = "raised_unpack")
          => /\ Len(specs) < Len(ui.contents)
             /\ \A i \in DOMAIN specs : specs[i].file = ui.contents[i].name

\* C8 witness: an upload of at least two files whose jobs completed out of
\* submission order has been collected.
C8_Witness ==
    /\ cb.pc = "idle" /\ out.upload = "collected" /\ out.result = "fig"
    /\ ~out.in_order
    /\ Len(specs) >= 2
    /\ specs[1].file = ui.contents[1].name
    /\ specs[2].file = ui.contents[2].name

\* C10 as stated: a file whose waveform is empty (or whose sample rate is
\* <= 0) yields no engine but a per-file error placeholder, and the upload it
\* belongs to does not end with the batch raising out of result.get().
C10_AsStated ==
    /\ \A i \in DOMAIN pool.jobs :
          (pool.jobs[i].status = "done" /\ pool.jobs[i].file.kind = "ok"
             /\ (pool.jobs[i].file.wav = 0 \/ pool.jobs[i].file.sr <= 0))
          => /\ pool.jobs[i].result.kind = "div"
             /\ ~pool.jobs[i].result.spec.alive
    /\ (UploadEnded /\ \E i \in DOMAIN ui.contents :
                           ui.contents[i].kind = "ok" /\ ui.contents[i].wav = 0)
          => out.at # "get"

\* The step is an execution of update_graphs triggered by a parameter input
\* (freq_scale, win_ms, overlap or n_mel): the input values changed and the
\* uploaded contents did not.
IsParamChange == ui' # ui /\ ui'.contents = ui.contents

\* C11: an execution of update_graphs triggered by a parameter input submits
\* no job to the pool (the pool is idle before and after, and the callback
\* does not wait for results), and the session list holds the same number of
\* engines, in the same order, for the same files, waveforms and sample
\* rates; the figure keeps its rows and traces.
C11_ParamChangeInPlace ==
    [][ IsParamChange =>
          /\ pool = IdlePool /\ pool' = IdlePool
          /\ cb.pc = "idle" /\ cb'.pc = "idle"
          /\ out'.upload = out.upload
          /\ Len(specs') = Len(specs)
          /\ \A i \in DOMAIN specs :
                /\ specs'[i].alive
                /\ specs'[i].file = specs[i].file
                /\ specs'[i].wav = specs[i].wav
                /\ specs'[i].sr = specs[i].sr
          /\ fig'.rows = fig.rows
          /\ fig'.titles = fig.titles
          /\ Len(fig'.data) = Len(fig.data) ]_vars

\* C11 witness: a parameter change has been applied to a session of two
\* engines whose window length is the one derived from the new win_ms, which
\* is not the default the page starts with.
C11_Witness ==
    /\ cb.pc = "idle" /\ out.trigger = Param /\ out.result = "fig"
    /\ pool = IdlePool
    /\ Len(specs) = 2
    /\ ui.win_ms = 5 /\ ui.n_mel = 10
    /\ \A i \in DOMAIN specs :
          /\ specs[i].win_length = WinLength(specs[i].sr, 5)
          /\ specs[i].n_mel = 10

(***************************************************************************)
(* Properties of concurrent requests, checked under SpecThreads.           *)
(***************************************************************************)
\* The thread is inside a setter call that is recomputing the engine.
InSetter(t) == thr[t].pc \in {"linear", "mel"}

\* The thread is about to read the engine's arrays into the figure.
Reading(t) == thr[t].pc = "refresh"

\* C12 as stated: no two update_graphs executions are inside a setter call
\* on the same engine at the same time, and none reads an engine's arrays
\* while another execution is recomputing them.
C12_AsStated ==
    \A t, u \in Threads :
        (t # u /\ InSetter(t) /\ thr[t].i = thr[u].i)
            => ~InSetter(u) /\ ~Reading(u)

(***************************************************************************)
(* Properties of the thread budget, checked under SpecApp.                 *)
(***************************************************************************)
\* Indices of the jobs a worker is running.
Running == { i \in DOMAIN pool.jobs : pool.jobs[i].status = "running" }

\* Sum of the thread budgets of the running jobs among jobs[i..].
RECURSIVE SumBudgets(_, _)
SumBudgets(jobs, i) ==
    IF i > Len(jobs) THEN 0
    ELSE (IF jobs[i].status = "running" THEN jobs[i].n_threads ELSE 0)
         + SumBudgets(jobs, i + 1)

\* C13: for every CPU count n >= 2 and every batch size C >= 1, with
\* floor(n/2) workers and the budget max(2, floor(n/C)) per job, the largest
\* number of jobs that run at once, min(floor(n/2), C), times the budget is
\* at most n; and at every moment of the processing of a batch at most
\* floor(n/2) jobs are running and their budgets sum to at most n.
C13_NoOversubscription ==
    /\ \A n \in 2..MaxCpus, c \in 1..(2 * MaxCpus) :
          Min(Workers(n), c) * Budget(n, c) <= n
    /\ Cardinality(Running) <= PoolSize
    /\ SumBudgets(pool.jobs, 1) <= CpuCount

\* C13 witness: every worker of the pool is running a job of a batch of more
\* files than there are workers, and the budgets add up to the CPU count.
C13_Witness ==
    /\ cb.pc = "get"
    /\ Len(pool.jobs) > PoolSize
    /\ Cardinality(Running) = PoolSize
    /\ Cardinality(Running) >= 2
    /\ SumBudgets(pool.jobs, 1) >= 4

\* C14: while an upload is being processed there is one job per file of that
\* upload, and every job carries the same n_threads, the value
\* max(2, cpu_count // C) for the number C of files of that upload, whatever
\* the size of the uploads before it; between uploads the pool holds no job.
C14_BudgetPerBatch ==
    /\ cb.pc = "get" =>
          /\ Len(pool.jobs) = Len(ui.contents)
          /\ \A i \in DOMAIN pool.jobs :
                /\ pool.jobs[i].n_threads =
                      Max(2, CpuCount \div Len(ui.contents))
                /\ pool.jobs[i].n_threads = pool.jobs[1].n_threads
    /\ cb.pc = "idle" => pool.jobs = <<>>

\* C14 witness: after an upload of two or more files (budget
\* max(2, cpu_count // 2) or less), an upload of one file is being processed
\* with the budget cpu_count.
C14_Witness ==
    /\ cb.pc = "get"
    /\ Len(specs) >= 2
    /\ Len(pool.jobs) = 1
    /\ pool.jobs[1].status = "running"
    /\ pool.jobs[1].n_threads = CpuCount
    /\ CpuCount > Max(2, CpuCount \div 2)

(***************************************************************************)
(* Further properties of the engine, checked under Spec.                   *)
(***************************************************************************)
\* C15: when set_overlap(v) was called on an engine of window length W with
\* round(W / v) >= 1 and overlap is read next, the call had returned
\* normally and the value read is round(W / round(W / v)), which is
\* round(window_length_samples / hop_length_samples) of the engine and need
\* not be v.
C15_OverlapRoundTrip ==
    [][ (eng.alive /\ call.op = "set_overlap" /\ call'.op = "get_overlap"
           /\ Round(eng.win_length, call.arg) >= 1)
          => /\ ~call.raised
             /\ ~call'.raised
             /\ call'.ret =
                   Round(eng.win_length, Round(eng.win_length, call.arg))
             /\ call'.ret = Round(eng.win_length, eng.hop_length) ]_vars

\* C15 witness: overlap was read right after set_overlap(v) and the value
\* read, round(W / round(W / v)), is not v.
C15_Witness ==
    /\ eng.alive
    /\ call.op = "get_overlap" /\ call.prev = "set_overlap" /\ ~call.raised
    /\ Round(eng.win_length, call.arg) >= 1
    /\ call.ret = Round(eng.win_length, Round(eng.win_length, call.arg))
    /\ call.ret # call.arg

\* C16: in every reachable engine state the magnitude array, the linear dB
\* array, the mel dB array, the time axis, the linear label array and the mel
\* label array have the same number of time frames, whatever setters were
\* called, in whatever order, and however they ended.
C16_EqualFrameCounts ==
    eng.alive =>
        /\ eng.linear.frames = eng.spec.frames
        /\ eng.mel.frames = eng.linear.frames
        /\ eng.t_axis.len = eng.linear.frames
        /\ eng.f_linear_axis_str.cols = eng.linear.frames
        /\ eng.f_mel_axis_str.cols = eng.linear.frames
        /\ eng.linear.frames >= 1

\* C16 witness: set_overlap has changed the number of frames of an engine
\* whose n_mel had been changed before, and the six frame counts agree on
\* the new number.
C16_Witness ==
    /\ eng.alive
    /\ call.op = "set_overlap" /\ call.linear = "done" /\ call.mel = "done"
    /\ call.prev = "set_n_mel"
    /\ eng.linear.frames = Frames(eng.wav, eng.n_fft, eng.hop_length)
    /\ eng.linear.frames > 2
    /\ eng.mel.frames = eng.linear.frames
    /\ eng.f_mel_axis_str.cols = eng.linear.frames

\* C17: every set_overlap call, whether it returns at once, recomputes or
\* raises, leaves fft_size, window_length_samples, n_mel, the waveform and the
\* sample rate as they were.
C17_SetOverlapKeepsFftSize ==
    [][ IsCall("set_overlap") =>
          /\ eng'.n_fft = eng.n_fft
          /\ eng'.win_length = eng.win_length
          /\ eng'.n_mel = eng.n_mel
          /\ eng'.wav = eng.wav
          /\ eng'.sr = eng.sr
          /\ eng'.file = eng.file ]_vars

\* C17 witness: a set_overlap call that recomputed both products for a hop
\* length other than the one round(window_length / 2) the FFT size would
\* suggest, with the FFT size still the one derived from the window length.
C17_Witness ==
    /\ eng.alive
    /\ call.op = "set_overlap" /\ call.linear = "done" /\ call.mel = "done"
    /\ eng.hop_length = Round(eng.win_length, call.arg)
    /\ eng.n_fft = NFft(eng.win_length)
    /\ eng.n_fft # NFft(eng.hop_length)
    /\ eng.spec.n_fft = eng.n_fft

\* C18: a set_n_mel(x) call that directly follows a set_n_mel(x) call with
\* the same x returns normally, changes nothing in the engine and runs
\* neither stage, so that of two such calls at most the first recomputes the
\* mel products.
C18_SetNMelIdempotent ==
    [][ (IsCall("set_n_mel") /\ call.op = "set_n_mel" /\ call'.arg = call.arg)
          => /\ eng' = eng
             /\ call'.linear = "none" /\ call'.mel = "none"
             /\ ~call'.raised ]_vars

\* C18 witness: set_n_mel(x) was called twice in succession, the engine
\* holds the mel products for x and the second call ran no stage.
C18_Witness ==
    /\ eng.alive
    /\ call.op = "set_n_mel" /\ call.prev = "set_n_mel"
    /\ call.mel = "none" /\ ~call.raised
    /\ eng.n_mel = call.arg
    /\ eng.mel.n_mel = call.arg /\ eng.mel.src = eng.spec
    /\ eng.n_mel = 10

\* C19 as stated: whenever the most recent setter call returned normally the
\* engine is the one a full rebuild from its current window length, hop
\* length, FFT size and n_mel yields: the rebuild succeeds and changes no
\* product.
C19_AsStated ==
    (eng.alive /\ call.op \in {"set_window_ms", "set_overlap", "set_n_mel"}
       /\ ~call.raised)
        => /\ ~update_linear(eng).raised
           /\ update_linear(eng).eng = eng

(***************************************************************************)
(* Properties of the figure, checked under SpecApp.                        *)
(***************************************************************************)
\* The label array of the engine for the frequency scale.
Labels(s, freq_scale) ==
    IF freq_scale = "mel" THEN s.f_mel_axis_str ELSE s.f_linear_axis_str

\* C20 as stated: after every execution of update_graphs that returned the
\* figure, the customdata of each heatmap is the label array of its engine
\* for the scale chosen, and has as many rows and columns as the heatmap's z.
C20_AsStated ==
    (cb.pc = "idle" /\ out.result = "fig") =>
        \A i \in DOMAIN specs :
            2 * i - 1 <= Len(fig.data) =>
                /\ fig.data[2 * i - 1].customdata
                      = Labels(specs[i], ui.freq_scale)
                /\ fig.data[2 * i - 1].customdata.rows
                      = fig.data[2 * i - 1].z.rows
                /\ fig.data[2 * i - 1].customdata.cols
                      = fig.data[2 * i - 1].z.frames

====
